---------------------------- MODULE Spec2Model ----------------------------
(***************************************************************************)
(* The blogd HTTP backend (views.py, serializers.py, urls.py) as a state   *)
(* machine over its database tables.                                       *)
(*                                                                         *)
(* The specifications share the tables:                                    *)
(*   Spec         accounts, categories, posts and likes, requests served   *)
(*                one at a time, each handler one step;                    *)
(*   CommentSpec  posts and comments, served one at a time;                *)
(*   CountSpec    the handlers that write posts and comments;              *)
(*   AuthSpec     register / login / logout served by concurrent workers,  *)
(*                one step per database statement (every ORM call commits  *)
(*                on its own: no handler opens a transaction);             *)
(*   LikeSpec     the like handler served by concurrent workers.           *)
(***************************************************************************)
EXTENDS Integers, FiniteSets, Sequences, TLC

\* ------------------------------------------------------------------ bounds
MaxPosts == 2
MaxComments == 2
MaxCategories == 1
MaxKeys == 2
NumWorkers == 2
\* Depth at which the interpreter gives up a runaway recursion (RecursionError).
RecursionLimit == 3

Users == {"alice", "bob"}
Passwords == {"pw", "bad", ""}
Contents == {"c1"}
Titles == {"t1"}
CategoryNames == {"Tech"}
Absent == "absent"
None == "none"
PostIds == 1..MaxPosts
CommentIds == 1..MaxComments
CategoryIds == 1..MaxCategories
Workers == 1..NumWorkers
MutatingMethods == {"PUT", "PATCH", "DELETE"}

VARIABLES
    users,       \* auth_user rows: [username, password, is_staff]
    profiles,    \* UserProfile rows: [user, is_blog_admin]
    tokens,      \* authtoken rows: [user, key]
    nextKey,     \* the next fresh token key (keys are random, never reused)
    categories,  \* BlogCategory rows: [id, name]
    posts,       \* BlogPost rows: [id, author, title]
    comments,    \* Comment rows: [id, post, author, content, approved]
    likes,       \* Like rows per (post, user): the number of rows stored
    procs,       \* the request each worker is serving, and where it is in it
    stable,      \* history: per user, the key a login returned since the last token delete
    resp         \* the last response sent

vars == <<users, profiles, tokens, nextKey, categories, posts, comments, likes,
          procs, stable, resp>>

\* ------------------------------------------------------------ the tables
UserExists(u) == \E r \in users : r.username = u

UserRow(u) == CHOOSE r \in users : r.username = u

\* User.objects.create_user(...): is_staff is left at its default, False.
CreateUserRow(u, pw) == [username |-> u, password |-> pw, is_staff |-> FALSE]

HasProfile(u) == \E r \in profiles : r.user = u

\* UserProfile.objects.get(user=...).is_blog_admin
IsBlogAdmin(u) == \E r \in profiles : r.user = u /\ r.is_blog_admin

\* permissions.IsAdminUser: request.user and request.user.is_staff
IsAdminUser(u) == \E r \in users : r.username = u /\ r.is_staff

TokensOf(u) == {t \in tokens : t.user = u}

\* permissions.IsAuthenticated behind token authentication: the request carries
\* the key of a stored token row, which resolves to its user.
IsAuthenticated(u) == UserExists(u) /\ TokensOf(u) # {}

PostExists(p) == \E r \in posts : r.id = p

PostRow(p) == CHOOSE r \in posts : r.id = p

CommentExists(c) == \E r \in comments : r.id = c

CommentRow(c) == CHOOSE r \in comments : r.id = c

CategoryExists(c) == \E r \in categories : r.id = c

Idle == [pc |-> "idle", op |-> None, user |-> None, key |-> 0, adm |-> FALSE, post |-> 0,
         clean |-> FALSE]

NoResp == [op |-> "none", actor |-> None, target |-> 0, error |-> "ok", body |-> {}]

Response(op, actor, target, error, body) ==
    [op |-> op, actor |-> actor, target |-> target, error |-> error, body |-> body]

Init ==
    /\ users = {}
    /\ profiles = {}
    /\ tokens = {}
    /\ nextKey = 1
    /\ categories = {}
    /\ posts = {}
    /\ comments = {}
    /\ likes = [pu \in PostIds \X Users |-> 0]
    /\ procs = [w \in Workers |-> Idle]
    /\ stable = [u \in Users |-> 0]
    /\ resp = NoResp


\* --------------------------------------------------------- registration
\* UserRegisterSerializer.is_blog_admin: BooleanField(required=False, default=False)
IsBlogAdminField(adm) == IF adm = "true" THEN TRUE ELSE FALSE

\* UserRegisterSerializer.is_valid(): the username must not be taken.
RegisterIsValid(u) == ~UserExists(u)

\* The INSERT of a token row: Token.user is one-to-one, so the store refuses a
\* second row for the same user (IntegrityError).
TokenInsertUnchecked(u) == TRUE

TokenInsertOk(u) == TokensOf(u) = {}

\* Token.objects.get(user=...) when the row is there.
TokenKeyOf(u) == (CHOOSE t \in tokens : t.user = u).key

\* UserRegisterView.post, served alone: is_valid, create_user, the profile
\* insert, then get_token's get_or_create.
Register(u, pw, adm) ==
    /\ IF ~RegisterIsValid(u)
       THEN /\ resp' = Response("register", u, 0, "ValidationError", {})
            /\ UNCHANGED <<users, profiles, tokens, nextKey>>
       ELSE /\ users' = users \cup {CreateUserRow(u, pw)}
            /\ profiles' = profiles \cup {[user |-> u, is_blog_admin |-> IsBlogAdminField(adm)]}
            /\ IF TokensOf(u) # {}
               THEN /\ resp' = Response("register", u, TokenKeyOf(u), "ok", {})
                    /\ UNCHANGED <<tokens, nextKey>>
               ELSE /\ nextKey <= MaxKeys
                    /\ TokenInsertOk(u)
                    /\ tokens' = tokens \cup {[user |-> u, key |-> nextKey]}
                    /\ nextKey' = nextKey + 1
                    /\ resp' = Response("register", u, nextKey, "ok", {})
    /\ UNCHANGED <<categories, posts, comments, likes, procs, stable>>

\* ------------------------------------------------------------ categories
\* BlogCategoryListView / BlogCategoryDetailView.get_permissions: the writing
\* methods ask for IsAuthenticated and IsAdminUser, the others for IsAuthenticated.
CategoryPermission(method, a) ==
    IF ~IsAuthenticated(a) THEN "NotAuthenticated"
    ELSE IF method \in {"POST"} \cup MutatingMethods /\ ~IsAdminUser(a) THEN "Forbidden"
    ELSE "ok"

NextCategoryId ==
    IF categories = {} THEN 1
    ELSE 1 + (CHOOSE i \in {r.id : r \in categories} : \A r \in categories : r.id <= i)

\* POST categories/
CategoryCreate(a, name) ==
    /\ LET perm == CategoryPermission("POST", a) IN
       IF perm # "ok"
       THEN /\ resp' = Response("category_create", a, 0, perm, {})
            /\ UNCHANGED categories
       ELSE /\ NextCategoryId <= MaxCategories
            /\ categories' = categories \cup {[id |-> NextCategoryId, name |-> name]}
            /\ resp' = Response("category_create", a, NextCategoryId, "ok", {})
    /\ UNCHANGED <<users, profiles, tokens, nextKey, posts, comments, likes, procs, stable>>

\* PUT / PATCH / DELETE categories/<pk>/
CategoryMutate(a, pk, method, name) ==
    /\ LET perm == CategoryPermission(method, a) IN
       IF perm # "ok"
       THEN /\ resp' = Response("category_mutate", a, pk, perm, {})
            /\ UNCHANGED categories
       ELSE IF ~CategoryExists(pk)
       THEN /\ resp' = Response("category_mutate", a, pk, "Http404", {})
            /\ UNCHANGED categories
       ELSE /\ categories' =
                 IF method = "DELETE" THEN {r \in categories : r.id # pk}
                 ELSE {IF r.id = pk THEN [r EXCEPT !.name = name] ELSE r : r \in categories}
            /\ resp' = Response("category_mutate", a, pk, "ok", {})
    /\ UNCHANGED <<users, profiles, tokens, nextKey, posts, comments, likes, procs, stable>>

\* ----------------------------------------------------------------- posts
NextPostId ==
    IF posts = {} THEN 1
    ELSE 1 + (CHOOSE i \in {r.id : r \in posts} : \A r \in posts : r.id <= i)

\* POST posts/ : BlogPostListView.perform_create, run after IsAuthenticated and
\* serializer.is_valid(). The raise stops the handler before save().
PostCreate(a, title) ==
    /\ IF ~IsAuthenticated(a)
       THEN /\ resp' = Response("post_create", a, 0, "NotAuthenticated", {})
            /\ UNCHANGED posts
       ELSE IF ~HasProfile(a)
       THEN /\ resp' = Response("post_create", a, 0, "DoesNotExist", {})
            /\ UNCHANGED posts
       ELSE IF ~IsBlogAdmin(a)
       THEN /\ resp' = Response("post_create", a, 0, "PermissionDenied", {})
            /\ UNCHANGED posts
       ELSE /\ NextPostId <= MaxPosts
            /\ posts' = posts \cup {[id |-> NextPostId, author |-> a, title |-> title]}
            /\ resp' = Response("post_create", a, NextPostId, "ok", {})
    /\ UNCHANGED <<users, profiles, tokens, nextKey, categories, comments, likes, procs, stable>>

\* BlogPostDetailView.get_permissions calls self.get_object() for the writing
\* methods; GenericAPIView.get_object() ends in check_object_permissions(), which
\* iterates self.get_permissions(): the two call each other with nothing to stop
\* them when the post exists, and the interpreter raises RecursionError before
\* the author / is_blog_admin test of line 150 is ever evaluated.
RECURSIVE PostGetPermissions(_, _, _, _)
RECURSIVE PostGetObject(_, _, _, _)
PostGetPermissions(method, a, pk, depth) ==
    IF depth > RecursionLimit THEN "RecursionError"
    ELSE IF method \in MutatingMethods
    THEN LET obj == PostGetObject(method, a, pk, depth + 1) IN
         IF obj # "ok" THEN obj
         ELSE IF ~HasProfile(a) THEN "DoesNotExist"
         ELSE IF PostRow(pk).author # a /\ ~IsBlogAdmin(a) THEN "PermissionDenied"
         ELSE "ok"
    ELSE "ok"

PostGetObject(method, a, pk, depth) ==
    IF depth > RecursionLimit THEN "RecursionError"
    ELSE IF ~PostExists(pk) THEN "Http404"
    ELSE PostGetPermissions(method, a, pk, depth + 1)

\* on_delete cascade from a post to its comments and likes.
CascadeComments(pk) == {c \in comments : c.post # pk}

CascadeLikes(pk) == [pu \in PostIds \X Users |-> IF pu[1] = pk THEN 0 ELSE likes[pu]]

\* GET / PUT / PATCH / DELETE posts/<pk>/ : dispatch builds the permission list
\* (get_permissions) first, then asks IsAuthenticated, then runs the handler.
\* BlogPostSerializer.author is read_only: an update never writes it.
PostDetail(a, pk, method, title) ==
    /\ LET perm == PostGetPermissions(method, a, pk, 0)
           obj == PostGetObject(method, a, pk, 0)
       IN
       IF perm # "ok"
       THEN /\ resp' = Response("post_detail_" \o method, a, pk, perm, {})
            /\ UNCHANGED <<posts, comments, likes>>
       ELSE IF ~IsAuthenticated(a)
       THEN /\ resp' = Response("post_detail_" \o method, a, pk, "NotAuthenticated", {})
            /\ UNCHANGED <<posts, comments, likes>>
       ELSE IF obj # "ok"
       THEN /\ resp' = Response("post_detail_" \o method, a, pk, obj, {})
            /\ UNCHANGED <<posts, comments, likes>>
       ELSE IF method = "GET"
       THEN /\ resp' = Response("post_detail_" \o method, a, pk, "ok", {pk})
            /\ UNCHANGED <<posts, comments, likes>>
       ELSE IF method = "DELETE"
       THEN /\ posts' = {r \in posts : r.id # pk}
            /\ comments' = CascadeComments(pk)
            /\ likes' = CascadeLikes(pk)
            /\ resp' = Response("post_detail_" \o method, a, pk, "ok", {})
       ELSE /\ posts' = {IF r.id = pk THEN [r EXCEPT !.title = title] ELSE r : r \in posts}
            /\ resp' = Response("post_detail_" \o method, a, pk, "ok", {pk})
            /\ UNCHANGED <<comments, likes>>
    /\ UNCHANGED <<users, profiles, tokens, nextKey, categories, procs, stable>>

\* GET posts/admin/ : AdminBlogPostsView.get_queryset
AdminPosts(a) ==
    /\ IF ~IsAuthenticated(a)
       THEN resp' = Response("admin_posts", a, 0, "NotAuthenticated", {})
       ELSE IF ~HasProfile(a)
       THEN resp' = Response("admin_posts", a, 0, "DoesNotExist", {})
       ELSE IF ~IsBlogAdmin(a)
       THEN resp' = Response("admin_posts", a, 0, "PermissionDenied", {})
       ELSE resp' = Response("admin_posts", a, 0, "ok", {r.id : r \in {q \in posts : q.author = a}})
    /\ UNCHANGED <<users, profiles, tokens, nextKey, categories, posts, comments, likes, procs, stable>>

\* -------------------------------------------------------------- comments
\* Comment.approved when the request does not carry the field.
CommentApprovedDefault == FALSE

\* CommentSerializer: 'approved' is among fields and not among read_only_fields,
\* so a value in the request body is validated and written.
ApprovedField(approved, old) == IF approved = Absent THEN old ELSE approved = "true"

\* BlogPostSerializer.get_comments_count: obj.comments.filter(approved=True).count()
CommentsCountAll(p) == Cardinality({c \in comments : c.post = p})

CommentsCount(p) == Cardinality({c \in comments : c.post = p /\ c.approved})

NextCommentId ==
    IF comments = {} THEN 1
    ELSE 1 + (CHOOSE i \in {r.id : r \in comments} : \A r \in comments : r.id <= i)

\* GET posts/<post_id>/comments/ : CommentListView.get_queryset. The filter is
\* applied whether or not a post with that id exists.
CommentListQueryset(post_id) ==
    {c.id : c \in {r \in comments : r.post = post_id /\ r.approved}}

CommentList(a, post_id) ==
    /\ IF ~IsAuthenticated(a)
       THEN resp' = Response("comment_list", a, post_id, "NotAuthenticated", {})
       ELSE resp' = Response("comment_list", a, post_id, "ok", CommentListQueryset(post_id))
    /\ UNCHANGED <<users, profiles, tokens, nextKey, categories, posts, comments, likes, procs, stable>>

\* POST posts/<post_id>/comments/ : CommentListView.perform_create.
\* save(author=..., post=...) overrides author and post; every other validated
\* field, 'approved' included, is written as the request gave it.
CommentCreate(a, post_id, content, approved) ==
    /\ IF ~IsAuthenticated(a)
       THEN /\ resp' = Response("comment_create", a, post_id, "NotAuthenticated", {})
            /\ UNCHANGED comments
       ELSE IF ~PostExists(post_id)
       THEN /\ resp' = Response("comment_create", a, post_id, "Http404", {})
            /\ UNCHANGED comments
       ELSE /\ NextCommentId <= MaxComments
            /\ comments' = comments \cup
                 {[id |-> NextCommentId, post |-> post_id, author |-> a, content |-> content,
                   approved |-> ApprovedField(approved, CommentApprovedDefault)]}
            /\ resp' = Response("comment_create", a, NextCommentId, "ok", {})
    /\ UNCHANGED <<users, profiles, tokens, nextKey, categories, posts, likes, procs, stable>>

\* CommentDetailView.get_permissions calls self.get_object() for every method,
\* and get_object() comes back to get_permissions() through
\* check_object_permissions(), as in BlogPostDetailView.
RECURSIVE CommentGetPermissions(_, _, _, _)
RECURSIVE CommentGetObject(_, _, _, _)
CommentGetPermissions(method, a, pk, depth) ==
    IF depth > RecursionLimit THEN "RecursionError"
    ELSE LET obj == CommentGetObject(method, a, pk, depth + 1) IN
         IF obj # "ok" THEN obj
         ELSE IF method \in MutatingMethods
         THEN IF ~HasProfile(a) THEN "DoesNotExist"
              ELSE IF CommentRow(pk).author # a /\ ~IsBlogAdmin(a) THEN "PermissionDenied"
              ELSE "ok"
         ELSE "ok"

CommentGetObject(method, a, pk, depth) ==
    IF depth > RecursionLimit THEN "RecursionError"
    ELSE IF ~CommentExists(pk) THEN "Http404"
    ELSE CommentGetPermissions(method, a, pk, depth + 1)

\* GET / PUT / PATCH / DELETE comments/<pk>/
CommentDetail(a, pk, method, content, approved) ==
    /\ LET perm == CommentGetPermissions(method, a, pk, 0)
           obj == CommentGetObject(method, a, pk, 0)
       IN
       IF perm # "ok"
       THEN /\ resp' = Response("comment_detail_" \o method, a, pk, perm, {})
            /\ UNCHANGED comments
       ELSE IF ~IsAuthenticated(a)
       THEN /\ resp' = Response("comment_detail_" \o method, a, pk, "NotAuthenticated", {})
            /\ UNCHANGED comments
       ELSE IF obj # "ok"
       THEN /\ resp' = Response("comment_detail_" \o method, a, pk, obj, {})
            /\ UNCHANGED comments
       ELSE IF method = "GET"
       THEN /\ resp' = Response("comment_detail_" \o method, a, pk, "ok", {pk})
            /\ UNCHANGED comments
       ELSE IF method = "DELETE"
       THEN /\ comments' = {r \in comments : r.id # pk}
            /\ resp' = Response("comment_detail_" \o method, a, pk, "ok", {})
       ELSE /\ comments' = {IF r.id = pk
                            THEN [r EXCEPT !.content = content,
                                           !.approved = ApprovedField(approved, r.approved)]
                            ELSE r : r \in comments}
            /\ resp' = Response("comment_detail_" \o method, a, pk, "ok", {pk})
    /\ UNCHANGED <<users, profiles, tokens, nextKey, categories, posts, likes, procs, stable>>

\* PATCH comments/<pk>/approve/ : ApproveCommentView.patch
ApprovedAfterPatch(old) == TRUE

ApproveComment(a, pk) ==
    /\ IF ~IsAuthenticated(a)
       THEN /\ resp' = Response("approve_PATCH", a, pk, "NotAuthenticated", {})
            /\ UNCHANGED comments
       ELSE IF ~HasProfile(a)
       THEN /\ resp' = Response("approve_PATCH", a, pk, "DoesNotExist", {})
            /\ UNCHANGED comments
       ELSE IF ~IsBlogAdmin(a)
       THEN /\ resp' = Response("approve_PATCH", a, pk, "PermissionDenied", {})
            /\ UNCHANGED comments
       ELSE IF ~CommentExists(pk)
       THEN /\ resp' = Response("approve_PATCH", a, pk, "Http404", {})
            /\ UNCHANGED comments
       ELSE /\ comments' = {IF r.id = pk
                            THEN [r EXCEPT !.approved = ApprovedAfterPatch(r.approved)]
                            ELSE r : r \in comments}
            /\ resp' = Response("approve_PATCH", a, pk, "ok", {})
    /\ UNCHANGED <<users, profiles, tokens, nextKey, categories, posts, likes, procs, stable>>

\* PUT comments/<pk>/approve/ : ApproveCommentView overrides patch() only. The put()
\* it inherits from generics.UpdateAPIView runs the stock update with
\* CommentSerializer under permission_classes = [IsAuthenticated]: no
\* is_blog_admin test, 'content' required, 'approved' written when given.
ApprovePut(a, pk, content, approved) ==
    /\ IF ~IsAuthenticated(a)
       THEN /\ resp' = Response("approve_PUT", a, pk, "NotAuthenticated", {})
            /\ UNCHANGED comments
       ELSE IF ~CommentExists(pk)
       THEN /\ resp' = Response("approve_PUT", a, pk, "Http404", {})
            /\ UNCHANGED comments
       ELSE /\ comments' = {IF r.id = pk
                            THEN [r EXCEPT !.content = content,
                                           !.approved = ApprovedField(approved, r.approved)]
                            ELSE r : r \in comments}
            /\ resp' = Response("approve_PUT", a, pk, "ok", {pk})
    /\ UNCHANGED <<users, profiles, tokens, nextKey, categories, posts, likes, procs, stable>>

\* ----------------------------------------------------------------- likes
\* Like.objects.filter(post=post, user=request.user).exists()
LikeExists(p, u) == likes[<<p, u>>] > 0

\* serializer.save(user=..., post=...): one more Like row for the pair.
LikeInsert(p, u) == [likes EXCEPT ![<<p, u>>] = @ + 1]

\* POST posts/<post_id>/like/ : LikeCreateView.perform_create, served alone.
LikeCreate(a, post_id) ==
    /\ IF ~IsAuthenticated(a)
       THEN /\ resp' = Response("like", a, post_id, "NotAuthenticated", {})
            /\ UNCHANGED likes
       ELSE IF ~PostExists(post_id)
       THEN /\ resp' = Response("like", a, post_id, "Http404", {})
            /\ UNCHANGED likes
       ELSE IF LikeExists(post_id, a)
       THEN /\ resp' = Response("like", a, post_id, "ValidationError", {})
            /\ UNCHANGED likes
       ELSE /\ likes' = LikeInsert(post_id, a)
            /\ resp' = Response("like", a, post_id, "ok", {})
    /\ UNCHANGED <<users, profiles, tokens, nextKey, categories, posts, comments, procs, stable>>

\* DELETE posts/<post_id>/unlike/ : LikeDeleteView.get_object, then destroy.
\* get_object_or_404(Like, ...) is a get(): more than one row for the pair is
\* MultipleObjectsReturned, which is not a 404.
LikeDelete(a, post_id) ==
    /\ IF ~IsAuthenticated(a)
       THEN /\ resp' = Response("unlike", a, post_id, "NotAuthenticated", {})
            /\ UNCHANGED likes
       ELSE IF ~PostExists(post_id)
       THEN /\ resp' = Response("unlike", a, post_id, "Http404", {})
            /\ UNCHANGED likes
       ELSE IF likes[<<post_id, a>>] = 0
       THEN /\ resp' = Response("unlike", a, post_id, "Http404", {})
            /\ UNCHANGED likes
       ELSE IF likes[<<post_id, a>>] > 1
       THEN /\ resp' = Response("unlike", a, post_id, "MultipleObjectsReturned", {})
            /\ UNCHANGED likes
       ELSE /\ likes' = [likes EXCEPT ![<<post_id, a>>] = 0]
            /\ resp' = Response("unlike", a, post_id, "ok", {})
    /\ UNCHANGED <<users, profiles, tokens, nextKey, categories, posts, comments, procs, stable>>

\* The status an outcome is answered with, for the outcomes whose status the
\* framework fixes: rest_framework.exceptions.ValidationError is 400,
\* NotAuthenticated 401, a refusal by a permission class 403, Http404 404, an
\* exception the framework does not handle 500; "ok" stands for the 2xx. The
\* outcome "PermissionDenied" is the raise statement of the views themselves
\* (lines 137, 151, 174, 203, 215) and is given no status here.
StatusOf(error) ==
    CASE error = "ok" -> 200
      [] error = "ValidationError" -> 400
      [] error = "NotAuthenticated" -> 401
      [] error = "Forbidden" -> 403
      [] error = "Http404" -> 404
      [] error \in {"RecursionError", "DoesNotExist", "MultipleObjectsReturned",
                    "IntegrityError", "ServerError"} -> 500

\* ------------------------------------------- requests served one at a time
Methods == {"GET", "PUT", "PATCH", "DELETE"}
Flags == {Absent, "true", "false"}

\* Accounts, categories, posts and likes, from the empty database.
Next ==
    \/ \E u \in Users, adm \in Flags : Register(u, "pw", adm)
    \/ \E a \in Users, n \in CategoryNames : CategoryCreate(a, n)
    \/ \E a \in Users, pk \in CategoryIds, m \in MutatingMethods, n \in CategoryNames :
          CategoryMutate(a, pk, m, n)
    \/ \E a \in Users, t \in Titles : PostCreate(a, t)
    \/ \E a \in Users, pk \in PostIds, m \in Methods, t \in Titles : PostDetail(a, pk, m, t)
    \/ \E a \in Users : AdminPosts(a)
    \/ \E a \in Users, p \in PostIds : LikeCreate(a, p)
    \/ \E a \in Users, p \in PostIds : LikeDelete(a, p)

Spec == Init /\ [][Next]_vars

\* The database after alice registered with is_blog_admin = true, bob registered
\* without the flag, and alice created a post (a state Spec reaches).
SeededInit ==
    /\ users = {CreateUserRow("alice", "pw"), CreateUserRow("bob", "pw")}
    /\ profiles = {[user |-> "alice", is_blog_admin |-> TRUE],
                   [user |-> "bob", is_blog_admin |-> FALSE]}
    /\ tokens = {[user |-> "alice", key |-> 1], [user |-> "bob", key |-> 2]}
    /\ nextKey = 3
    /\ categories = {}
    /\ posts = {[id |-> 1, author |-> "alice", title |-> "t1"]}
    /\ comments = {}
    /\ likes = [pu \in PostIds \X Users |-> 0]
    /\ procs = [w \in Workers |-> Idle]
    /\ stable = [u \in Users |-> 0]
    /\ resp = NoResp

\* Posts and their comments.
CommentNext ==
    \/ \E a \in Users, t \in Titles : PostCreate(a, t)
    \/ \E a \in Users : AdminPosts(a)
    \/ \E a \in Users, p \in PostIds : CommentList(a, p)
    \/ \E a \in Users, p \in PostIds, c \in Contents, f \in Flags : CommentCreate(a, p, c, f)
    \/ \E a \in Users, pk \in CommentIds, m \in Methods, c \in Contents, f \in Flags :
          CommentDetail(a, pk, m, c, f)
    \/ \E a \in Users, pk \in CommentIds : ApproveComment(a, pk)
    \/ \E a \in Users, pk \in CommentIds, c \in Contents, f \in Flags : ApprovePut(a, pk, c, f)

CommentSpec == SeededInit /\ [][CommentNext]_vars

\* The handlers that write comments or posts.
CountNext ==
    \/ \E a \in Users, t \in Titles : PostCreate(a, t)
    \/ \E a \in Users, p \in PostIds, c \in Contents, f \in Flags : CommentCreate(a, p, c, f)
    \/ \E a \in Users, pk \in CommentIds, m \in {"PATCH", "DELETE"}, c \in Contents :
          CommentDetail(a, pk, m, c, "true")
    \/ \E a \in Users, pk \in CommentIds : ApproveComment(a, pk)
    \/ \E a \in Users, pk \in CommentIds, c \in Contents, f \in Flags : ApprovePut(a, pk, c, f)

CountSpec == SeededInit /\ [][CountNext]_vars

\* ------------------------------ register / login / logout, statement by statement
\* No view or serializer opens a transaction, so every ORM call commits on its
\* own and other requests run between two calls of one handler.
Busy(w, pc) == procs[w].pc = pc

\* UserRegisterView.post: serializer.is_valid()
RegisterBegin(w, u, adm) ==
    /\ Busy(w, "idle")
    /\ IF ~RegisterIsValid(u)
       THEN /\ resp' = Response("register", u, 0, "ValidationError", {})
            /\ UNCHANGED procs
       ELSE /\ procs' = [procs EXCEPT ![w] = [Idle EXCEPT !.pc = "reg_user", !.op = "register",
                                                        !.user = u, !.adm = IsBlogAdminField(adm)]]
            /\ UNCHANGED resp
    /\ UNCHANGED <<users, profiles, tokens, nextKey, categories, posts, comments, likes, stable>>

\* UserRegisterSerializer.create: User.objects.create_user(...). The username
\* column is unique: a second insert of the name is refused.
RegisterCreateUser(w) ==
    /\ Busy(w, "reg_user")
    /\ IF UserExists(procs[w].user)
       THEN /\ resp' = Response("register", procs[w].user, 0, "IntegrityError", {})
            /\ procs' = [procs EXCEPT ![w] = Idle]
            /\ UNCHANGED users
       ELSE /\ users' = users \cup {CreateUserRow(procs[w].user, "pw")}
            /\ procs' = [procs EXCEPT ![w].pc = "reg_profile"]
            /\ UNCHANGED resp
    /\ UNCHANGED <<profiles, tokens, nextKey, categories, posts, comments, likes, stable>>

\* UserRegisterSerializer.create: UserProfile.objects.create(user=user, ...)
RegisterCreateProfile(w) ==
    /\ Busy(w, "reg_profile")
    /\ profiles' = profiles \cup {[user |-> procs[w].user, is_blog_admin |-> procs[w].adm]}
    /\ procs' = [procs EXCEPT ![w].pc = "goc_get"]
    /\ UNCHANGED <<users, tokens, nextKey, categories, posts, comments, likes, stable, resp>>

\* The request ends between the two inserts (the profile insert raises, the
\* worker is stopped): the user row is already committed and nothing undoes it.
RegisterInterrupted(w) ==
    /\ Busy(w, "reg_profile")
    /\ procs' = [procs EXCEPT ![w] = Idle]
    /\ resp' = Response("register", procs[w].user, 0, "ServerError", {})
    /\ UNCHANGED <<users, profiles, tokens, nextKey, categories, posts, comments, likes, stable>>

\* UserLoginView.post: the two fields, then authenticate(username, password).
LoginBegin(w, u, pw) ==
    /\ Busy(w, "idle")
    /\ IF pw = ""
       THEN /\ resp' = Response("login", u, 0, "ValidationError", {})
            /\ UNCHANGED procs
       ELSE IF ~(UserExists(u) /\ UserRow(u).password = pw)
       THEN /\ resp' = Response("login", u, 0, "NotAuthenticated", {})
            /\ UNCHANGED procs
       ELSE /\ procs' = [procs EXCEPT ![w] = [Idle EXCEPT !.pc = "goc_get", !.op = "login",
                                                        !.user = u, !.clean = TRUE]]
            /\ UNCHANGED resp
    /\ UNCHANGED <<users, profiles, tokens, nextKey, categories, posts, comments, likes, stable>>

\* What follows Token.objects.get_or_create(user=...) once it has a token:
\* registration answers (get_token is called while the response is built),
\* login still has UserProfile.objects.get to run.
TokenObtained(w, k) ==
    IF procs[w].op = "register"
    THEN /\ procs' = [procs EXCEPT ![w] = Idle]
         /\ resp' = Response("register", procs[w].user, k, "ok", {})
    ELSE /\ procs' = [procs EXCEPT ![w].pc = "login_profile", ![w].key = k]
         /\ UNCHANGED resp

\* get_or_create, first statement: self.get(user=user)
TokenGet(w) ==
    /\ Busy(w, "goc_get")
    /\ IF TokensOf(procs[w].user) # {}
       THEN TokenObtained(w, TokenKeyOf(procs[w].user))
       ELSE /\ procs' = [procs EXCEPT ![w].pc = "goc_create"]
            /\ UNCHANGED resp
    /\ UNCHANGED <<users, profiles, tokens, nextKey, categories, posts, comments, likes, stable>>

\* get_or_create, second statement: self.create(user=user) in a savepoint; an
\* IntegrityError sends it to a second get.
TokenCreate(w) ==
    /\ Busy(w, "goc_create")
    /\ IF TokenInsertOk(procs[w].user)
       THEN /\ nextKey <= MaxKeys
            /\ tokens' = tokens \cup {[user |-> procs[w].user, key |-> nextKey]}
            /\ nextKey' = nextKey + 1
            /\ TokenObtained(w, nextKey)
       ELSE /\ procs' = [procs EXCEPT ![w].pc = "goc_retry"]
            /\ UNCHANGED <<tokens, nextKey, resp>>
    /\ UNCHANGED <<users, profiles, categories, posts, comments, likes, stable>>

\* get_or_create, after the IntegrityError: self.get(user=user) again, and the
\* error is raised if the row has gone meanwhile.
TokenRetry(w) ==
    /\ Busy(w, "goc_retry")
    /\ IF TokensOf(procs[w].user) # {}
       THEN TokenObtained(w, TokenKeyOf(procs[w].user))
       ELSE /\ procs' = [procs EXCEPT ![w] = Idle]
            /\ resp' = Response(procs[w].op, procs[w].user, 0, "IntegrityError", {})
    /\ UNCHANGED <<users, profiles, tokens, nextKey, categories, posts, comments, likes, stable>>

\* UserLoginView.post: UserProfile.objects.get(user=user), then the response.
LoginRespond(w) ==
    /\ Busy(w, "login_profile")
    /\ procs' = [procs EXCEPT ![w] = Idle]
    /\ IF ~HasProfile(procs[w].user)
       THEN /\ resp' = Response("login", procs[w].user, 0, "DoesNotExist", {})
            /\ UNCHANGED stable
       ELSE /\ resp' = Response("login", procs[w].user, procs[w].key, "ok", {})
            /\ stable' = IF procs[w].clean THEN [stable EXCEPT ![procs[w].user] = procs[w].key]
                         ELSE stable
    /\ UNCHANGED <<users, profiles, tokens, nextKey, categories, posts, comments, likes>>

\* UserLogoutView.post, authentication: the request's key is looked up in the
\* token table; the token found stays cached on request.user.
LogoutBegin(w, u) ==
    /\ Busy(w, "idle")
    /\ IF ~IsAuthenticated(u)
       THEN /\ resp' = Response("logout", u, 0, "NotAuthenticated", {})
            /\ UNCHANGED procs
       ELSE /\ procs' = [procs EXCEPT ![w] = [Idle EXCEPT !.pc = "logout_delete", !.op = "logout",
                                                        !.user = u, !.key = TokenKeyOf(u)]]
            /\ UNCHANGED resp
    /\ UNCHANGED <<users, profiles, tokens, nextKey, categories, posts, comments, likes, stable>>

\* UserLogoutView.post: request.user.auth_token.delete()
LogoutDelete(w) ==
    LET row == [user |-> procs[w].user, key |-> procs[w].key] IN
    /\ Busy(w, "logout_delete")
    /\ tokens' = tokens \ {row}
    /\ stable' = IF row \in tokens THEN [stable EXCEPT ![row.user] = 0] ELSE stable
    /\ procs' = [v \in Workers |->
                   IF v = w THEN Idle
                   ELSE IF row \in tokens /\ procs[v].user = row.user
                   THEN [procs[v] EXCEPT !.clean = FALSE]
                   ELSE procs[v]]
    /\ resp' = Response("logout", procs[w].user, procs[w].key, "ok", {})
    /\ UNCHANGED <<users, profiles, nextKey, categories, posts, comments, likes>>

\* The accounts the concurrent requests are about.
AuthUsers == {"alice"}

AuthNext ==
    \/ \E w \in Workers, u \in AuthUsers, adm \in Flags : RegisterBegin(w, u, adm)
    \/ \E w \in Workers : RegisterCreateUser(w)
    \/ \E w \in Workers : RegisterCreateProfile(w)
    \/ \E w \in Workers : RegisterInterrupted(w)
    \/ \E w \in Workers, u \in AuthUsers, pw \in Passwords : LoginBegin(w, u, pw)
    \/ \E w \in Workers : TokenGet(w)
    \/ \E w \in Workers : TokenCreate(w)
    \/ \E w \in Workers : TokenRetry(w)
    \/ \E w \in Workers : LoginRespond(w)
    \/ \E w \in Workers, u \in AuthUsers : LogoutBegin(w, u)
    \/ \E w \in Workers : LogoutDelete(w)

AuthSpec == Init /\ [][AuthNext]_vars

\* ------------------------------------------- like, statement by statement
\* The Like table as the data model describes it (id, post, user, created_at):
\* the store itself refuses no row.
LikeInsertAllowed(p, u) == TRUE

\* LikeCreateView.perform_create: get_object_or_404(BlogPost, pk=post_id)
LikeBegin(w, a, post_id) ==
    /\ Busy(w, "idle")
    /\ IF ~IsAuthenticated(a)
       THEN /\ resp' = Response("like", a, post_id, "NotAuthenticated", {})
            /\ UNCHANGED procs
       ELSE IF ~PostExists(post_id)
       THEN /\ resp' = Response("like", a, post_id, "Http404", {})
            /\ UNCHANGED procs
       ELSE /\ procs' = [procs EXCEPT ![w] = [Idle EXCEPT !.pc = "like_check", !.op = "like",
                                                        !.user = a, !.post = post_id]]
            /\ UNCHANGED resp
    /\ UNCHANGED <<users, profiles, tokens, nextKey, categories, posts, comments, likes, stable>>

\* LikeCreateView.perform_create: the exists() query and the raise
LikeCheck(w) ==
    /\ Busy(w, "like_check")
    /\ IF LikeExists(procs[w].post, procs[w].user)
       THEN /\ resp' = Response("like", procs[w].user, procs[w].post, "ValidationError", {})
            /\ procs' = [procs EXCEPT ![w] = Idle]
       ELSE /\ procs' = [procs EXCEPT ![w].pc = "like_save"]
            /\ UNCHANGED resp
    /\ UNCHANGED <<users, profiles, tokens, nextKey, categories, posts, comments, likes, stable>>

\* LikeCreateView.perform_create: serializer.save(user=..., post=post)
LikeSave(w) ==
    /\ Busy(w, "like_save")
    /\ procs' = [procs EXCEPT ![w] = Idle]
    /\ IF LikeInsertAllowed(procs[w].post, procs[w].user)
       THEN /\ likes' = LikeInsert(procs[w].post, procs[w].user)
            /\ resp' = Response("like", procs[w].user, procs[w].post, "ok", {})
       ELSE /\ resp' = Response("like", procs[w].user, procs[w].post, "IntegrityError", {})
            /\ UNCHANGED likes
    /\ UNCHANGED <<users, profiles, tokens, nextKey, categories, posts, comments, stable>>

LikeNext ==
    \/ \E w \in Workers, a \in Users, p \in PostIds : LikeBegin(w, a, p)
    \/ \E w \in Workers : LikeCheck(w)
    \/ \E w \in Workers : LikeSave(w)
    \/ \E a \in Users, p \in PostIds : LikeDelete(a, p)
    \/ \E a \in Users, t \in Titles : PostCreate(a, t)

LikeSpec == SeededInit /\ [][LikeNext]_vars

\* ================================================================= claims
LikeRequest(a, p) == resp'.op = "like" /\ resp'.actor = a /\ resp'.target = p

UnlikeRequest(a, p) == resp'.op = "unlike" /\ resp'.actor = a /\ resp'.target = p

C2_LikeUnlikeOutcomes ==
    [][\A a \in Users, p \in PostIds :
          (IsAuthenticated(a) /\ PostExists(p)) =>
             /\ (LikeRequest(a, p) /\ LikeExists(p, a)) =>
                   (StatusOf(resp'.error) = 409 /\ likes' = likes)
             /\ (UnlikeRequest(a, p) /\ LikeExists(p, a)) =>
                   (resp'.error = "ok" /\ likes' = [likes EXCEPT ![<<p, a>>] = 0])
             /\ (UnlikeRequest(a, p) /\ ~LikeExists(p, a)) =>
                   (StatusOf(resp'.error) = 404 /\ likes' = likes)]_vars

\* C3: a category create, update or delete by an authenticated actor is allowed
\* exactly when the actor's profile has is_blog_admin, whatever is_staff says;
\* a refused one leaves the categories as they were.
C3_CategoryWriteIffBlogAdmin ==
    [][\A a \in Users :
          (IsAuthenticated(a) /\ resp'.actor = a
             /\ resp'.op \in {"category_create", "category_mutate"}) =>
             /\ IsBlogAdmin(a) => resp'.error # "Forbidden"
             /\ ~IsBlogAdmin(a) => (resp'.error = "Forbidden" /\ categories' = categories)]_vars

\* C4: an authenticated actor without is_blog_admin never creates a post, never
\* gets the admin listing and never approves a comment through
\* comments/<pk>/approve/: post create, admin listing and the approve PATCH are
\* refused with posts and comments left as they were, and no request to the
\* approve endpoint turns a comment's approved flag on; a post created by a blog
\* admin has that actor as author.
C4_NonAdminDenied ==
    [][\A a \in Users :
          /\ (IsAuthenticated(a) /\ HasProfile(a) /\ ~IsBlogAdmin(a) /\ resp'.actor = a
                /\ resp'.op \in {"post_create", "admin_posts", "approve_PATCH"}) =>
                (resp'.error = "PermissionDenied" /\ posts' = posts /\ comments' = comments)
          /\ (IsAuthenticated(a) /\ HasProfile(a) /\ ~IsBlogAdmin(a) /\ resp'.actor = a
                /\ resp'.op \in {"approve_PATCH", "approve_PUT"}) =>
                (\A c \in comments : ~c.approved => \E d \in comments' : d.id = c.id /\ ~d.approved)
          /\ (resp'.op = "post_create" /\ resp'.actor = a /\ resp'.error = "ok") =>
                (\E r \in posts' \ posts : r.author = a)]_vars

\* C5: in every reachable state, the ones between two statements of a
\* registration and the ones after an interrupted registration included, every
\* user has exactly one profile.
C5_EveryUserHasOneProfile ==
    \A u \in Users :
       UserExists(u) => Cardinality({r \in profiles : r.user = u}) = 1

\* C6: a user never has more than one token row, however register, login and
\* logout requests for that user interleave; a token row is inserted for a user
\* only when the user has none; and a login that no token delete overlapped
\* returns the user's stored token, the same one the previous such login returned.
C6_OneTokenPerUser ==
    /\ [](\A u \in AuthUsers : Cardinality(TokensOf(u)) <= 1)
    /\ [][/\ \A t \in tokens' \ tokens : TokensOf(t.user) = {}
          /\ \A w \in Workers :
                (Busy(w, "login_profile") /\ procs'[w].pc = "idle" /\ procs[w].clean
                   /\ resp'.error = "ok") =>
                   /\ resp'.target = procs[w].key
                   /\ [user |-> procs[w].user, key |-> procs[w].key] \in tokens
                   /\ stable[procs[w].user] # 0 => resp'.target = stable[procs[w].user]]_vars

\* Two logins of one user overlapped: one inserted the token, the other was
\* refused the insert and is about to read the row again; and a login has
\* already returned the stored token.
C6_Witness ==
    \E w \in Workers :
       /\ Busy(w, "goc_retry")
       /\ procs[w].op = "login"
       /\ TokensOf(procs[w].user) # {}
       /\ stable[procs[w].user] # 0

\* C7: an update or delete of an existing post by an authenticated actor
\* succeeds exactly when the actor is the post's author or has is_blog_admin; a
\* refused one leaves the posts as they were; no step changes a post's author.
C7_PostMutateIffAuthorOrAdmin ==
    [][/\ \A a \in Users, p \in PostIds :
             (IsAuthenticated(a) /\ PostExists(p) /\ resp'.actor = a /\ resp'.target = p
                /\ resp'.op \in {"post_detail_PUT", "post_detail_PATCH", "post_detail_DELETE"}) =>
                /\ (resp'.error = "ok") <=> (PostRow(p).author = a \/ IsBlogAdmin(a))
                /\ resp'.error # "ok" => posts' = posts
       /\ \A r \in posts : \A q \in posts' : q.id = r.id => q.author = r.author]_vars

ApprovePatchOk(c) ==
    resp'.op = "approve_PATCH" /\ resp'.target = c /\ resp'.error = "ok"

\* C8: comments_count of a post counts its approved comments: a step that
\* creates an unapproved comment leaves every post's count as it was; an approve
\* (PATCH) of an unapproved comment raises its post's count by exactly one and no
\* other; an approve of an approved comment by a blog admin succeeds and leaves
\* every count as it was.
C8_CommentsCount ==
    [][/\ \A n \in comments' \ comments :
             (~CommentExists(n.id) /\ ~n.approved) =>
                \A p \in PostIds : CommentsCount(p)' = CommentsCount(p)
       /\ \A c \in comments, p \in PostIds :
             (ApprovePatchOk(c.id) /\ resp'.actor \in Users) =>
                CommentsCount(p)' =
                   CommentsCount(p) + (IF c.post = p /\ ~c.approved THEN 1 ELSE 0)
       /\ \A c \in comments :
             (resp'.op = "approve_PATCH" /\ resp'.target = c.id
                /\ IsAuthenticated(resp'.actor) /\ IsBlogAdmin(resp'.actor)) =>
                resp'.error = "ok"]_vars

\* A second approve of a comment has succeeded, its post counts one approved
\* comment and holds an unapproved one as well.
C8_Witness ==
    /\ resp.op = "approve_PATCH"
    /\ resp.error = "ok"
    /\ \E c \in comments, d \in comments :
          /\ c.id = resp.target
          /\ d.post = c.post
          /\ ~d.approved
          /\ CommentsCount(c.post) = 1
          /\ CommentsCountAll(c.post) = 2

\* C9: a comment listing returns only approved comments of the post asked for,
\* and is answered 404 when no post has that id.
C9_CommentListOfAbsentPost ==
    [][(resp'.op = "comment_list" /\ resp'.actor \in Users /\ IsAuthenticated(resp'.actor)) =>
          IF PostExists(resp'.target)
          THEN /\ resp'.error = "ok"
               /\ \A i \in resp'.body :
                     \E c \in comments : c.id = i /\ c.post = resp'.target /\ c.approved
          ELSE StatusOf(resp'.error) = 404]_vars

\* C10: a comment is unapproved when it is created, whatever the request
\* carries, and its approved flag goes from false to true only in a request of
\* an actor with is_blog_admin.
C10_ApprovedOnlyByAdmin ==
    [][/\ \A n \in comments' : ~CommentExists(n.id) => ~n.approved
       /\ \A c \in comments, d \in comments' :
             (d.id = c.id /\ ~c.approved /\ d.approved) => IsBlogAdmin(resp'.actor)]_vars

=============================================================================
